---- MODULE Spec2Model ----
(***************************************************************************)
(* Browser History Viewer (app.py): the BrowserHistoryParser engine        *)
(* (classification, timestamp conversion, the four extractions) and the    *)
(* Flask handlers that bind one parser in the global current_parser.       *)
(*                                                                         *)
(* Integers of SQLite are 64-bit and the timestamps of real artifacts do   *)
(* not fit TLC's 32-bit integers, so a raw integer is kept as a sign and a *)
(* sequence of base-1000 limbs, most significant first (13,303,960,000 is  *)
(* <<13, 303, 960, 0>>), and the arithmetic of datetime.timedelta and of   *)
(* the float division is carried out on limbs and on bit sequences.        *)
(***************************************************************************)
EXTENDS Integers, Sequences, FiniteSets, TLC

VARIABLES
    files,           \* the upload folder: file name -> artifact, or NoFile
    current_parser,  \* the global of app.py:379: None or a BrowserHistoryParser
    detect_runs,     \* how often detect_browser_type ran on the live parser
    parser,          \* the BrowserHistoryParser a caller of the engine holds
    ret,             \* what the last engine call returned (or raised)
    response,        \* the last HTTP response of the handlers run one at a time
    inflight         \* worker thread -> the request it serves, its position and locals

vars == <<files, parser, current_parser, detect_runs, ret, response, inflight>>

(***************************************************************************)
(* Python values and outcomes                                              *)
(***************************************************************************)
None == [t |-> "None"]

Ok(v) == [raised |-> FALSE, exc |-> "", value |-> v]

Raise(e) == [raised |-> TRUE, exc |-> e, value |-> ""]

(***************************************************************************)
(* Raw integers: [neg, mag], mag the base-1000 limbs without leading zero  *)
(***************************************************************************)
Int0 == [neg |-> FALSE, mag |-> <<>>]

Pos(mag) == [neg |-> FALSE, mag |-> mag]

Neg(mag) == [neg |-> TRUE, mag |-> mag]

IsZero(n) == n.mag = <<>>

RECURSIVE MagLess(_, _)
\* a < b for two magnitudes of the same length
MagLess(a, b) ==
    IF a = <<>> THEN FALSE
    ELSE IF Head(a) # Head(b) THEN Head(a) < Head(b)
    ELSE MagLess(Tail(a), Tail(b))

\* a < b for raw integers
IntLess(a, b) ==
    LET magLt(x, y) == IF Len(x) # Len(y) THEN Len(x) < Len(y) ELSE MagLess(x, y)
    IN  IF a.neg /\ ~b.neg THEN TRUE
        ELSE IF ~a.neg /\ b.neg THEN FALSE
        ELSE IF a.neg THEN magLt(b.mag, a.mag)
        ELSE magLt(a.mag, b.mag)

(***************************************************************************)
(* datetime.timedelta: the normalised (days, seconds, microseconds) of     *)
(* timedelta(microseconds=n) (unit 1000000) and timedelta(seconds=n)       *)
(* (unit 1); days of magnitude above 999999999 raise OverflowError.        *)
(***************************************************************************)
SecondsPerDay == 86400

MicrosPerSecond == 1000000

MaxDeltaDays == 999999999

RECURSIVE DeltaAcc(_, _, _)
\* Horner's rule over the limbs in the mixed radix (days, seconds, unit); the
\* days pass MaxDeltaDays with the next limb exactly when they are above
\* MaxDeltaDays \div 1000 before it
DeltaAcc(mag, acc, unit) ==
    IF mag = <<>> \/ acc.over THEN acc
    ELSE LET u2 == acc.us * 1000 + Head(mag)
             s2 == acc.s * 1000 + (u2 \div unit)
         IN  IF acc.d > MaxDeltaDays \div 1000
             THEN [acc EXCEPT !.over = TRUE]
             ELSE DeltaAcc(Tail(mag),
                           [d |-> acc.d * 1000 + (s2 \div SecondsPerDay),
                            s |-> s2 % SecondsPerDay,
                            us |-> u2 % unit,
                            over |-> FALSE],
                           unit)

\* the floor normalisation of a negative duration of |a.d| days and sb > 0
\* seconds begun: 0 <= seconds, 0 <= microseconds
Borrow(a, sb, unit) ==
    IF a.d + 1 > MaxDeltaDays THEN Raise("OverflowError")
    ELSE Ok([days |-> 0 - a.d - 1, seconds |-> SecondsPerDay - sb,
             microseconds |-> IF a.us > 0 THEN unit - a.us ELSE 0])

Normalise(a, neg, unit) ==
    IF a.over \/ a.d > MaxDeltaDays THEN Raise("OverflowError")
    ELSE IF ~neg THEN Ok([days |-> a.d, seconds |-> a.s, microseconds |-> a.us])
    ELSE IF a.s = 0 /\ a.us = 0
    THEN Ok([days |-> 0 - a.d, seconds |-> 0, microseconds |-> 0])
    ELSE Borrow(a, a.s + (IF a.us > 0 THEN 1 ELSE 0), unit)

\* timedelta(microseconds=n) for unit 1000000, timedelta(seconds=n) for unit 1
timedelta(n, unit) ==
    Normalise(DeltaAcc(n.mag, [d |-> 0, s |-> 0, us |-> 0, over |-> FALSE], unit),
              n.neg, unit)

(***************************************************************************)
(* datetime.date: proleptic Gregorian ordinals, 0001-01-01 is day 1        *)
(***************************************************************************)
MaxOrdinal == 3652059

IsLeap(y) == y % 4 = 0 /\ (y % 100 # 0 \/ y % 400 = 0)

DaysBeforeMonth == <<0, 31, 59, 90, 120, 151, 181, 212, 243, 273, 304, 334>>

DaysInMonth(y, m) ==
    IF m = 2 THEN (IF IsLeap(y) THEN 29 ELSE 28)
    ELSE IF m \in {4, 6, 9, 11} THEN 30 ELSE 31

\* datetime(y, m, d).toordinal()
ymd_to_ord(y, m, d) ==
    LET y1 == y - 1
    IN  y1 * 365 + y1 \div 4 - y1 \div 100 + y1 \div 400
        + DaysBeforeMonth[m] + (IF m > 2 /\ IsLeap(y) THEN 1 ELSE 0) + d

\* the month and day of day n (from 0) of `year`, m0 the estimated month and
\* p0 the days of the year before it
MonthDay(year, n, m0, p0) ==
    IF p0 > n
    THEN [year |-> year, month |-> m0 - 1,
          day |-> n - (p0 - DaysInMonth(year, m0 - 1)) + 1]
    ELSE [year |-> year, month |-> m0, day |-> n - p0 + 1]

YearDay(year, leap, n, m0) ==
    MonthDay(year, n, m0, DaysBeforeMonth[m0] + (IF m0 > 2 /\ leap THEN 1 ELSE 0))

\* n400, n100, n4, n1 whole 400-, 100-, 4- and 1-year cycles, then n days
Cycles(n400, n100, n4, n1, n) ==
    IF n1 = 4 \/ n100 = 4
    THEN [year |-> n400 * 400 + n100 * 100 + n4 * 4 + n1, month |-> 12, day |-> 31]
    ELSE YearDay(n400 * 400 + 1 + n100 * 100 + n4 * 4 + n1,
                 n1 = 3 /\ (n4 # 24 \/ n100 = 3), n, (n + 50) \div 32)

\* date.fromordinal(ordinal), 1 <= ordinal <= MaxOrdinal
ord_to_ymd(ordinal) ==
    Cycles((ordinal - 1) \div 146097,
           ((ordinal - 1) % 146097) \div 36524,
           (((ordinal - 1) % 146097) % 36524) \div 1461,
           ((((ordinal - 1) % 146097) % 36524) % 1461) \div 365,
           ((((ordinal - 1) % 146097) % 36524) % 1461) % 365)

Pad2(n) == IF n < 10 THEN "0" \o ToString(n) ELSE ToString(n)

\* '%Y-%m-%d %H:%M:%S UTC' (glibc's %Y does not pad a year below 1000)
Format(ymd, sod) ==
    ToString(ymd.year) \o "-" \o Pad2(ymd.month) \o "-" \o Pad2(ymd.day)
    \o " " \o Pad2(sod \div 3600) \o ":" \o Pad2((sod % 3600) \div 60)
    \o ":" \o Pad2(sod % 60) \o " UTC"

\* strftime('%Y-%m-%d %H:%M:%S UTC') of the date at `ordinal`, `sod` seconds
\* into the day
strftime(ordinal, sod) == Format(ord_to_ymd(ordinal), sod)

\* the date at `ordinal`, or `exc` outside years 1..9999
Render(ordinal, sod, exc) ==
    IF ordinal < 1 \/ ordinal > MaxOrdinal THEN Raise(exc) ELSE Ok(strftime(ordinal, sod))

\* epoch_start + delta for an epoch at midnight: OverflowError outside
\* years 1..9999
datetime_add(epochOrdinal, delta) ==
    IF delta.raised THEN delta
    ELSE Render(epochOrdinal + delta.value.days, delta.value.seconds, "OverflowError")

(***************************************************************************)
(* Python's float: the true division firefox_time / 1000000 is the IEEE    *)
(* double nearest the quotient (53 significant bits, ties to even).  The   *)
(* long arithmetic runs on base-1024 limbs and the rounding on the bits,   *)
(* most significant first.                                                 *)
(***************************************************************************)
DoubleBits == 53

Radix == 1024

RadixBits == 10

\* fractional limbs of the quotient: 80 bits, more than the quotient of a
\* 64-bit integer by 1000000 needs for 53 significant bits and a sticky part
QuotientLimbs == 8

Reverse(s) == [i \in 1..Len(s) |-> s[Len(s) + 1 - i]]

Zeros(k) == [i \in 1..k |-> 0]

\* without leading zeros
Strip(s) ==
    IF \A i \in 1..Len(s) : s[i] = 0 THEN <<>>
    ELSE SubSeq(s, CHOOSE i \in 1..Len(s) :
                       s[i] # 0 /\ \A j \in 1..(i - 1) : s[j] = 0, Len(s))

RECURSIVE SmallLimbs(_)
\* the limbs of a small natural, least significant first
SmallLimbs(c) == IF c = 0 THEN <<>> ELSE <<c % Radix>> \o SmallLimbs(c \div Radix)

RECURSIVE MulAdd(_, _, _)
\* limbs * k + carry, on limbs least significant first, k <= 1000000
MulAdd(limbs, k, carry) ==
    IF limbs = <<>> THEN SmallLimbs(carry)
    ELSE LET x == Head(limbs) * k + carry
         IN  <<x % Radix>> \o MulAdd(Tail(limbs), k, x \div Radix)

RECURSIVE ToRadix(_, _)
\* a magnitude in base-1000 limbs as base-1024 limbs, least significant first
ToRadix(mag, acc) ==
    IF mag = <<>> THEN acc
    ELSE ToRadix(Tail(mag), MulAdd(acc, 1000, Head(mag)))

RECURSIVE DivSmall(_, _, _, _)
\* long division of msb-first limbs by k <= 1000000: quotient and remainder
DivSmall(limbs, k, q, r) ==
    IF limbs = <<>> THEN [q |-> q, r |-> r]
    ELSE LET r2 == r * Radix + Head(limbs)
         IN  DivSmall(Tail(limbs), k, Append(q, r2 \div k), r2 % k)

\* the bits of msb-first limbs
BitsOf(limbs) ==
    [i \in 1..(RadixBits * Len(limbs)) |->
        (limbs[(i - 1) \div RadixBits + 1]
            \div 2 ^ (RadixBits - 1 - ((i - 1) % RadixBits))) % 2]

\* the limb of ten bits
Limb(b) ==
    512 * b[1] + 256 * b[2] + 128 * b[3] + 64 * b[4] + 32 * b[5] + 16 * b[6]
    + 8 * b[7] + 4 * b[8] + 2 * b[9] + b[10]

\* the msb-first limbs of bits whose number is a multiple of RadixBits
Limbs(p) ==
    [i \in 1..(Len(p) \div RadixBits) |->
        Limb(SubSeq(p, RadixBits * (i - 1) + 1, RadixBits * i))]

\* the msb-first limbs of bits
LimbsOf(bits) ==
    Limbs(Zeros((RadixBits - (Len(bits) % RadixBits)) % RadixBits) \o bits)

\* msb-first bits + 1
Increment(s) ==
    IF \A i \in 1..Len(s) : s[i] = 1 THEN <<1>> \o Zeros(Len(s))
    ELSE LET k == CHOOSE i \in 1..Len(s) :
                      s[i] = 0 /\ \A j \in (i + 1)..Len(s) : s[j] = 1
         IN  SubSeq(s, 1, k - 1) \o <<1>> \o Zeros(Len(s) - k)

AnyOne(s) == \E i \in 1..Len(s) : s[i] = 1

\* `keep`, rounded half-even on the bits cut after it: the guard bit and
\* whether anything follows it
RoundUp(keep, guard, rest) ==
    IF guard = 1 /\ (rest \/ (keep # <<>> /\ keep[Len(keep)] = 1))
    THEN Increment(keep) ELSE keep

\* the bits p, at least `drop` of them, without the last `drop`
Cut(p, drop, sticky) ==
    RoundUp(SubSeq(p, 1, Len(p) - drop), p[Len(p) - drop + 1],
            AnyOne(SubSeq(p, Len(p) - drop + 2, Len(p))) \/ sticky)

\* round-half-even of the msb-first bits `s` with its last `drop` bits cut
\* (`sticky`: a nonzero part below the last bit)
RoundCut(s, drop, sticky) ==
    IF drop <= 0 THEN s
    ELSE Cut(IF Len(s) < drop THEN Zeros(drop - Len(s)) \o s ELSE s, drop, sticky)

\* the bits s without leading zero, as a double
Rounded(s, scale, sticky) ==
    IF Len(s) > DoubleBits
    THEN [m |-> Strip(RoundCut(s, Len(s) - DoubleBits, sticky)),
          e |-> scale - (Len(s) - DoubleBits)]
    ELSE [m |-> s, e |-> scale]

\* a double as [m, e]: the bits m (at most DoubleBits + 1) times 2^(-e), the
\* double nearest to bits * 2^(-scale) (+ a sticky part)
ToDouble(bits, scale, sticky) == Rounded(Strip(bits), scale, sticky)

\* the quotient qr.q with QuotientLimbs fractional limbs, remainder qr.r
Quotient(qr) == ToDouble(BitsOf(qr.q), RadixBits * QuotientLimbs, qr.r # 0)

\* mag / k as Python divides two ints: correctly rounded
TrueDiv(mag, k) ==
    Quotient(DivSmall(Reverse(ToRadix(mag, <<>>)) \o Zeros(QuotientLimbs), k, <<>>, 0))

RECURSIVE LimbsToNat(_, _)
\* the value of msb-first limbs (small enough for an integer)
LimbsToNat(limbs, acc) ==
    IF limbs = <<>> THEN acc ELSE LimbsToNat(Tail(limbs), Radix * acc + Head(limbs))

RECURSIVE LimbsToDaySec(_, _)
\* whole seconds, as msb-first limbs, in days and seconds of the day
LimbsToDaySec(limbs, acc) ==
    IF limbs = <<>> THEN acc
    ELSE LET s2 == Radix * acc.s + Head(limbs)
         IN  LimbsToDaySec(Tail(limbs),
                           [d |-> Radix * acc.d + s2 \div SecondsPerDay,
                            s |-> s2 % SecondsPerDay])

\* the bits p of a double with e fractional bits: integer and fraction
Split(p, e) ==
    [int |-> SubSeq(p, 1, Len(p) - e), frac |-> SubSeq(p, Len(p) - e + 1, Len(p))]

\* modf of a double x >= 0 with e > 0 fractional bits
Modf(x) == Split(IF Len(x.m) < x.e THEN Zeros(x.e - Len(x.m)) \o x.m ELSE x.m, x.e)

\* round(prod), half to even, of a double below 2^20
RoundDouble(prod) == LimbsToNat(LimbsOf(Strip(RoundCut(prod.m, prod.e, FALSE))), 0)

\* floatpart * 1e6, a double itself
TimesMillion(frac, e) ==
    ToDouble(BitsOf(Reverse(MulAdd(Reverse(LimbsOf(frac)), MicrosPerSecond, 0))),
             e, FALSE)

\* the whole seconds in (days, seconds of the day) and the microseconds
\* 0..1000000 of round(floatpart * 1e6)
Denominator(mf, e) ==
    [sec |-> LimbsToDaySec(LimbsOf(mf.int), [d |-> 0, s |-> 0]),
     us |-> RoundDouble(TimesMillion(mf.frac, e))]

\* _PyTime_DoubleToDenominator of |d| (ROUND_HALF_EVEN)
DoubleToMicros(x) == Denominator(Modf(x), x.e)

UnixEpochOrdinal == ymd_to_ord(1970, 1, 1)

\* the date `days` days and `sod` seconds after the epoch, or before it
\* (floor towards the past)
Stamp(days, sod, neg) ==
    IF ~neg THEN Render(UnixEpochOrdinal + days, sod, "ValueError")
    ELSE IF sod > 0
    THEN Render(UnixEpochOrdinal - days - 1, SecondsPerDay - sod, "ValueError")
    ELSE Render(UnixEpochOrdinal - days, 0, "ValueError")

Seconds(secs, days, neg) ==
    Stamp(days + secs \div SecondsPerDay, secs % SecondsPerDay, neg)

\* the microseconds carry into the seconds: floatpart >= denominator carries
\* up, floatpart < 0 borrows a second
Carry(dm, neg) ==
    Seconds(dm.sec.s + (IF neg THEN (IF dm.us > 0 THEN 1 ELSE 0)
                        ELSE (IF dm.us >= MicrosPerSecond THEN 1 ELSE 0)),
            dm.sec.d, neg)

\* datetime.fromtimestamp(n / 1000000, tz=timezone.utc) rendered by strftime:
\* a year outside 1..9999 raises ValueError
fromtimestamp(n) == Carry(DoubleToMicros(TrueDiv(n.mag, MicrosPerSecond)), n.neg)

(***************************************************************************)
(* The three converters.  `x` is a column value as sqlite3 hands it over:  *)
(* an integer, or None for NULL (which no arithmetic accepts).             *)
(***************************************************************************)
\* sqlite3's Python value of a column: None for NULL, an int, a str, or
\* bytes for a BLOB
NULL == [t |-> "null"]

SqlInt(n) == [t |-> "int", v |-> n]

Text(str) == [t |-> "text", v |-> str]

Blob == [t |-> "blob"]

IsInt(x) == x.t = "int"

\* app.py:54-61
chrome_to_timestamp(chrome_time) ==
    IF IsInt(chrome_time) /\ IsZero(chrome_time.v) THEN Ok("Never")
    ELSE IF ~IsInt(chrome_time) THEN Raise("TypeError")
    ELSE datetime_add(ymd_to_ord(1601, 1, 1),
                      timedelta(chrome_time.v, MicrosPerSecond))

\* app.py:63-70
webkit_to_timestamp(webkit_time) ==
    IF IsInt(webkit_time) /\ IsZero(webkit_time.v) THEN Ok("Never")
    ELSE IF ~IsInt(webkit_time) THEN Raise("TypeError")
    ELSE datetime_add(ymd_to_ord(2001, 1, 1), timedelta(webkit_time.v, 1))

\* app.py:72-78
firefox_to_timestamp(firefox_time) ==
    IF IsInt(firefox_time) /\ IsZero(firefox_time.v) THEN Ok("Never")
    ELSE IF ~IsInt(firefox_time) THEN Raise("TypeError")
    ELSE fromtimestamp(firefox_time.v)

(***************************************************************************)
(* Python's truth value, `or`, and str() of a column value                 *)
(***************************************************************************)
Truthy(x) ==
    CASE x.t = "null" -> FALSE
      [] x.t = "int" -> ~IsZero(x.v)
      [] x.t = "text" -> x.v # ""
      [] OTHER -> TRUE

\* x or default
PyOr(x, default) == IF Truthy(x) THEN x ELSE default

Pad3(n) ==
    IF n < 10 THEN "00" \o ToString(n)
    ELSE IF n < 100 THEN "0" \o ToString(n) ELSE ToString(n)

RECURSIVE LimbsStr(_)
LimbsStr(mag) == IF mag = <<>> THEN "" ELSE Pad3(Head(mag)) \o LimbsStr(Tail(mag))

\* str(n) of a raw integer
IntStr(n) ==
    IF IsZero(n) THEN "0"
    ELSE (IF n.neg THEN "-" ELSE "") \o ToString(Head(n.mag)) \o LimbsStr(Tail(n.mag))

\* the formatting of {x} in an f-string
FormatValue(x) ==
    CASE x.t = "null" -> "None"
      [] x.t = "int" -> IntStr(x.v)
      [] x.t = "text" -> x.v
      [] OTHER -> "b'...'"

(***************************************************************************)
(* What a path of the file system holds.  A database is its tables (name   *)
(* -> rows in storage order) and whether the tables have the columns the   *)
(* queries of app.py name; sqlite3 reads any other bytes as "not a         *)
(* database", and an unreadable path cannot even be opened.                *)
(***************************************************************************)
NoFile == [kind |-> "nofile"]

Unreadable == [kind |-> "unreadable"]

Garbage == [kind |-> "garbage"]

Database(tables, cols) == [kind |-> "sqlite", tables |-> tables, cols |-> cols]

NoTables == [n \in {} |-> <<>>]

EmptyDb == Database(NoTables, TRUE)

\* sqlite3.connect(path): creates an empty database where there is no file,
\* fails where the path cannot be opened, and does not read the file yet
connect(content) ==
    IF content.kind = "unreadable" THEN Raise("OperationalError") ELSE Ok("conn")

\* the file after sqlite3.connect(path)
Connected(content) == IF content.kind = "nofile" THEN EmptyDb ELSE content

\* SELECT name FROM sqlite_master WHERE type='table'
table_names(content) ==
    IF connect(content).raised THEN connect(content)
    ELSE IF content.kind = "garbage" THEN Raise("DatabaseError")
    ELSE IF content.kind = "nofile" THEN Ok({})
    ELSE Ok(DOMAIN content.tables)

\* SELECT ... FROM the `names`: the rows of the first, or the error of a
\* file that is no database, a missing table or a missing column
select(content, names) ==
    IF connect(content).raised THEN connect(content)
    ELSE IF content.kind = "garbage" THEN Raise("DatabaseError")
    ELSE IF content.kind = "nofile" THEN Raise("OperationalError")
    ELSE IF ~(\A n \in names : n \in DOMAIN content.tables) THEN Raise("OperationalError")
    ELSE IF ~content.cols THEN Raise("OperationalError")
    ELSE Ok(content.tables)

(***************************************************************************)
(* BrowserHistoryParser.detect_browser_type, app.py:26-52                  *)
(***************************************************************************)
\* the chain with the gecko test before the chromium one
classify_gecko_first(tables) ==
    IF "moz_places" \in tables /\ "moz_historyvisits" \in tables
    THEN "firefox"
    ELSE IF "urls" \in tables /\ "visits" \in tables /\ "downloads" \in tables
    THEN "chrome"
    ELSE IF "history_items" \in tables /\ "history_visits" \in tables
    THEN "safari"
    ELSE "unknown"

\* app.py:38-48, the if/elif chain over the table names
classify(tables) ==
    IF "urls" \in tables /\ "visits" \in tables /\ "downloads" \in tables
    THEN "chrome"
    ELSE IF "moz_places" \in tables /\ "moz_historyvisits" \in tables
    THEN "firefox"
    ELSE IF "history_items" \in tables /\ "history_visits" \in tables
    THEN "safari"
    ELSE "unknown"

\* the body of the try, app.py:29-48
detect_body(content) ==
    IF table_names(content).raised THEN table_names(content)
    ELSE Ok(classify(table_names(content).value))

\* app.py:28-52: any exception is printed and answered 'unknown'
detect_browser_type(content) ==
    IF detect_body(content).raised THEN Ok("unknown") ELSE detect_body(content)

\* app.py:22-24: the instance, or the exception of its constructor
BrowserHistoryParser(db_path, content) ==
    IF detect_browser_type(content).raised THEN detect_browser_type(content)
    ELSE Ok([t |-> "parser", db_path |-> db_path,
             browser_type |-> detect_browser_type(content).value])

(***************************************************************************)
(* SQL: ORDER BY ... DESC and LIMIT.  Results are sequences of runs        *)
(* [rec, n]: n equal records in a row, so that a table of more than 1000   *)
(* rows is a short sequence.                                               *)
(***************************************************************************)
\* the storage classes in sqlite's sort order: NULL, numbers, text, blobs
ClassRank(x) ==
    CASE x.t = "null" -> 0 [] x.t = "int" -> 1 [] x.t = "text" -> 2 [] OTHER -> 3

\* a sorts before b, ascending (texts among themselves, and blobs, are not
\* ordered by the model: they keep their storage order)
SqlLess(a, b) ==
    IF ClassRank(a) # ClassRank(b) THEN ClassRank(a) < ClassRank(b)
    ELSE IsInt(a) /\ IntLess(a.v, b.v)

\* rows ORDER BY keys DESC; rows of equal key stay in storage order, as
\* sqlite's sorter leaves them
OrderByDesc(rows, keys) ==
    LET N == Len(rows)
        rank(i) == Cardinality({j \in 1..N : SqlLess(keys[i], keys[j])})
                   + Cardinality({j \in 1..(i - 1) :
                                     ~SqlLess(keys[j], keys[i])
                                     /\ ~SqlLess(keys[i], keys[j])})
                   + 1
    IN  [r \in 1..N |-> rows[CHOOSE i \in 1..N : rank(i) = r]]

RECURSIVE Count(_)
\* the number of rows of a sequence of runs
Count(runs) == IF runs = <<>> THEN 0 ELSE Head(runs).n + Count(Tail(runs))

RECURSIVE Limit(_, _)
\* runs LIMIT k
Limit(runs, k) ==
    IF runs = <<>> \/ k <= 0 THEN <<>>
    ELSE IF Head(runs).n >= k THEN <<[Head(runs) EXCEPT !.n = k]>>
    ELSE <<Head(runs)>> \o Limit(Tail(runs), k - Head(runs).n)

\* the first exception of a sequence of outcomes, or the sequence of values
Collect(outs) ==
    IF \E i \in 1..Len(outs) : outs[i].raised
    THEN outs[CHOOSE i \in 1..Len(outs) :
                  outs[i].raised /\ \A j \in 1..(i - 1) : ~outs[j].raised]
    ELSE Ok([i \in 1..Len(outs) |-> outs[i].value])

Run(rec, n) == [rec |-> rec, n |-> n]

Empty == Text("")

Zero == SqlInt(Int0)

Str(out) == Text(out.value)

(***************************************************************************)
(* BrowserHistoryParser.get_history_data, app.py:80-168.  A row of the     *)
(* primary table is [time, url, title, visit_count, typed, hidden]: the    *)
(* columns last_visit_time .. hidden of urls, last_visit_date .. hidden    *)
(* of moz_places, visit_time, url, domain_expansion, visit_count of        *)
(* history_items.  Its id is its place in the table.                       *)
(***************************************************************************)
Times(rows) == [i \in 1..Len(rows) |-> rows[i].time]

\* the dictionary of app.py:103-110 and 130-137, `stamp` the converted time
history_record(stamp, row) ==
    IF stamp.raised THEN stamp
    ELSE Ok(Run([last_visit_time |-> Str(stamp),
                 url |-> PyOr(row.url, Empty),
                 title |-> PyOr(row.title, Empty),
                 visit_count |-> PyOr(row.visit_count, Zero),
                 typed_count |-> PyOr(row.typed, Zero),
                 is_hidden |-> Text(IF Truthy(row.hidden) THEN "Yes" ELSE "No")], 1))

\* app.py:103-110
chrome_history_record(row) == history_record(chrome_to_timestamp(row.time), row)

\* app.py:130-137
firefox_history_record(row) == history_record(firefox_to_timestamp(row.time), row)

\* the dictionary of app.py:154-161
safari_record(stamp, row) ==
    IF stamp.raised THEN stamp
    ELSE Ok(Run([last_visit_time |-> Str(stamp),
                 url |-> PyOr(row.url, Empty),
                 title |-> PyOr(row.title, Empty),
                 visit_count |-> PyOr(row.visit_count, Zero),
                 typed_count |-> Zero,
                 is_hidden |-> Text("No")], 1))

\* app.py:154-161
safari_history_record(row) == safari_record(webkit_to_timestamp(row.time), row)

\* the rows of `table` of a successful query, newest first
Newest(selected, table) ==
    IF selected.raised THEN selected
    ELSE Ok(OrderByDesc(selected.value[table], Times(selected.value[table])))

\* app.py:87-110: FROM urls ORDER BY last_visit_time DESC
chrome_history(content) ==
    LET results == Newest(select(content, {"urls"}), "urls")
    IN  IF results.raised THEN results
        ELSE Collect([i \in 1..Len(results.value) |-> chrome_history_record(results.value[i])])

\* WHERE last_visit_date IS NOT NULL
RECURSIVE NotNullTime(_)
NotNullTime(rows) ==
    IF rows = <<>> THEN <<>>
    ELSE IF Head(rows).time.t = "null" THEN NotNullTime(Tail(rows))
    ELSE <<Head(rows)>> \o NotNullTime(Tail(rows))

\* the rows of moz_places of a successful query that have a time, newest first
NewestNotNull(selected) ==
    IF selected.raised THEN selected
    ELSE Ok(OrderByDesc(NotNullTime(selected.value["moz_places"]),
                        Times(NotNullTime(selected.value["moz_places"]))))

\* app.py:113-137: FROM moz_places WHERE last_visit_date IS NOT NULL
\* ORDER BY last_visit_date DESC
firefox_history(content) ==
    LET results == NewestNotNull(select(content, {"moz_places"}))
    IN  IF results.raised THEN results
        ELSE Collect([i \in 1..Len(results.value) |-> firefox_history_record(results.value[i])])

\* app.py:140-161: FROM history_items ORDER BY visit_time DESC
safari_history(content) ==
    LET results == Newest(select(content, {"history_items"}), "history_items")
    IN  IF results.raised THEN results
        ELSE Collect([i \in 1..Len(results.value) |-> safari_history_record(results.value[i])])

\* the body of the try, app.py:83-164: for a family without a branch `data`
\* is never bound and `return data` raises UnboundLocalError
history_body(self, content) ==
    IF connect(content).raised THEN connect(content)
    ELSE IF self.browser_type = "chrome" THEN chrome_history(content)
    ELSE IF self.browser_type = "firefox" THEN firefox_history(content)
    ELSE IF self.browser_type = "safari" THEN safari_history(content)
    ELSE Raise("UnboundLocalError")

\* a method without the try: the exception reaches the caller
Propagated(out) == out

\* except Exception: print and answer [] (app.py:166-168, 243-245, 333-335,
\* 374-376)
Caught(out) == IF out.raised THEN Ok(<<>>) ELSE out

\* app.py:82-168
get_history_data(self, content) == Caught(history_body(self, content))

(***************************************************************************)
(* BrowserHistoryParser.get_downloads_data, app.py:170-245.  A row of      *)
(* downloads is [start_time, end_time, target_path, received_bytes,        *)
(* total_bytes, tab_url, tab_referrer_url]; a row of moz_annos is          *)
(* [anno_attribute_id, place_id, dateAdded, lastModified, content] and a   *)
(* row of moz_anno_attributes is [name], ids being places in the table.    *)
(***************************************************************************)
\* os.path.basename on the paths of the model
basename(path) ==
    CASE path.t = "blob" -> Ok(Blob)
      [] path.t = "int" -> Raise("TypeError")
      [] path.v = "/home/u/report.pdf" -> Ok(Text("report.pdf"))
      [] path.v = "/home/u/" -> Ok(Text(""))
      [] OTHER -> Ok(path)

\* the dictionary of app.py:197-206
download_record(start, end, filename, path, row) ==
    IF filename.raised THEN filename
    ELSE IF start.raised THEN start
    ELSE IF end.raised THEN end
    ELSE Ok(Run([start_time |-> Str(start),
                 end_time |-> Str(end),
                 filename |-> filename.value,
                 path |-> path,
                 received_bytes |-> PyOr(row.received_bytes, Zero),
                 total_bytes |-> PyOr(row.total_bytes, Zero),
                 source_url |-> PyOr(row.tab_url, Empty),
                 referrer_url |-> PyOr(row.tab_referrer_url, Empty)], 1))

\* app.py:195: os.path.basename(path) if path else ''
filename_of(path) == IF Truthy(path) THEN basename(path) ELSE Ok(Empty)

\* app.py:194-206
chrome_download_record(row) ==
    download_record(chrome_to_timestamp(row.start_time),
                    chrome_to_timestamp(row.end_time),
                    filename_of(PyOr(row.target_path, Empty)),
                    PyOr(row.target_path, Empty), row)



\* the downloads of a successful query, newest first
NewestDownloads(selected) ==
    IF selected.raised THEN selected
    ELSE Ok(OrderByDesc(selected.value["downloads"],
                        [i \in 1..Len(selected.value["downloads"]) |->
                            selected.value["downloads"][i].start_time]))

\* app.py:177-206: FROM downloads ORDER BY start_time DESC
chrome_downloads(content) ==
    LET results == NewestDownloads(select(content, {"downloads"}))
    IN  IF results.raised THEN results
        ELSE Collect([i \in 1..Len(results.value) |-> chrome_download_record(results.value[i])])

DownloadAnnotation == "downloads/destinationFileURI"

FirefoxDownloadTables == {"moz_anno_attributes", "moz_annos", "moz_places"}

RECURSIVE AnnoJoin(_, _, _)
\* moz_anno_attributes aa JOIN moz_annos a ON aa.id = a.anno_attribute_id
\* JOIN moz_places p ON a.place_id = p.id WHERE aa.name = DownloadAnnotation
AnnoJoin(annos, attributes, places) ==
    IF annos = <<>> THEN <<>>
    ELSE LET a == Head(annos)
             rest == AnnoJoin(Tail(annos), attributes, places)
         IN  IF a.anno_attribute_id \in 1..Len(attributes)
                /\ attributes[a.anno_attribute_id].name = DownloadAnnotation
                /\ a.place_id \in 1..Len(places)
             THEN <<[dateAdded |-> a.dateAdded, lastModified |-> a.lastModified,
                     title |-> places[a.place_id].title,
                     content |-> a.content]>> \o rest
             ELSE rest

\* the dictionary of app.py:226-235
annotation_record(start, end, row) ==
    IF start.raised THEN start
    ELSE IF end.raised THEN end
    ELSE Ok(Run([start_time |-> Str(start),
                 end_time |-> Str(end),
                 filename |-> PyOr(row.title, Empty),
                 path |-> PyOr(row.content, Empty),
                 received_bytes |-> Zero,
                 total_bytes |-> Zero,
                 source_url |-> Empty,
                 referrer_url |-> Empty], 1))

\* app.py:226-235
firefox_download_record(row) ==
    annotation_record(firefox_to_timestamp(row.dateAdded),
                      firefox_to_timestamp(row.lastModified), row)



ByDateAdded(joined) ==
    OrderByDesc(joined, [i \in 1..Len(joined) |-> joined[i].dateAdded])

\* the download annotations of a successful query, newest first
NewestAnnotations(selected) ==
    IF selected.raised THEN selected
    ELSE Ok(ByDateAdded(AnnoJoin(selected.value["moz_annos"],
                                 selected.value["moz_anno_attributes"],
                                 selected.value["moz_places"])))

\* app.py:209-235
firefox_downloads(content) ==
    LET results == NewestAnnotations(select(content, FirefoxDownloadTables))
    IN  IF results.raised THEN results
        ELSE Collect([i \in 1..Len(results.value) |-> firefox_download_record(results.value[i])])

\* the body of the try, app.py:173-241
downloads_body(self, content) ==
    IF connect(content).raised THEN connect(content)
    ELSE IF self.browser_type = "chrome" THEN chrome_downloads(content)
    ELSE IF self.browser_type = "firefox" THEN firefox_downloads(content)
    ELSE Ok(<<>>)

\* app.py:172-245
get_downloads_data(self, content) == Caught(downloads_body(self, content))

(***************************************************************************)
(* BrowserHistoryParser.get_visits_data, app.py:247-335.  The visits table *)
(* (visits, moz_historyvisits) is a sequence of runs of n rows             *)
(* [time, url, transition, from_visit]: url is the id of a row of the      *)
(* primary table (its place in it; an id outside it matches no row) and    *)
(* from_visit the id of a visit, given as the run that holds it (0 for     *)
(* NULL).  Ids are INTEGER PRIMARY KEYs, so a join matches at most one row.*)
(***************************************************************************)
VisitLimit == 1000

RECURSIVE VisitJoin(_, _, _)
\* visits v JOIN places u ON v.url = u.id
\* LEFT JOIN visits ref_v ON v.from_visit = ref_v.id
\* LEFT JOIN places ref_u ON ref_v.url = ref_u.id
VisitJoin(runs, visits, places) ==
    IF runs = <<>> THEN <<>>
    ELSE LET v == Head(runs).row
             rest == VisitJoin(Tail(runs), visits, places)
             ref_v == IF v.from_visit \in 1..Len(visits)
                      THEN visits[v.from_visit].row.url ELSE 0
             has_ref == ref_v \in 1..Len(places)
         IN  IF v.url \in 1..Len(places)
             THEN <<[row |-> [time |-> v.time,
                              url |-> places[v.url].url,
                              title |-> places[v.url].title,
                              transition |-> v.transition,
                              referrer_url |-> IF has_ref THEN places[ref_v].url ELSE NULL,
                              referrer_title |-> IF has_ref THEN places[ref_v].title ELSE NULL],
                     n |-> Head(runs).n]>> \o rest
             ELSE rest

\* ORDER BY visit time DESC LIMIT 1000 of the joined rows
NewestVisits(joined) ==
    Limit(OrderByDesc(joined, [i \in 1..Len(joined) |-> joined[i].row.time]),
          VisitLimit)

\* the dict of app.py:273-283: the label of code k is at k + 1
transition_types ==
    <<"Link", "Typed", "Auto Bookmark", "Auto Subframe", "Manual Subframe",
      "Generated", "Start Page", "Form Submit", "Reload">>

\* the key of a column value in transition_types, or 0 - 1 for no key
TransitionKey(x) ==
    IF ~IsInt(x) \/ x.v.neg \/ Len(x.v.mag) > 1 THEN 0 - 1
    ELSE IF IsZero(x.v) THEN 0
    ELSE x.v.mag[1]

\* dict.get(key, 'Unknown') with the keys 1..9: the table read one place off
transition_from_one(x) ==
    IF TransitionKey(x) \in 1..Len(transition_types)
    THEN transition_types[TransitionKey(x)] ELSE "Unknown"

\* app.py:290: transition_types.get(row[3], 'Unknown')
chrome_transition(x) ==
    IF TransitionKey(x) \in 0..(Len(transition_types) - 1)
    THEN transition_types[TransitionKey(x) + 1] ELSE "Unknown"

\* app.py:321: f'Type {row[3]}' if row[3] else 'Unknown'
firefox_transition(x) ==
    IF Truthy(x) THEN "Type " \o FormatValue(x) ELSE "Unknown"

\* the dictionary of app.py:287-294 and 318-325
visit_record(stamp, transition, segment_name, run) ==
    IF stamp.raised THEN stamp
    ELSE Ok(Run([visit_time |-> Str(stamp),
                 url |-> PyOr(run.row.url, Empty),
                 title |-> PyOr(run.row.title, Empty),
                 transition |-> Text(transition),
                 referrer_url |-> PyOr(run.row.referrer_url, Empty),
                 referrer_title |-> PyOr(run.row.referrer_title, Empty),
                 segment_name |-> Text(segment_name)], run.n))

\* app.py:286-294
chrome_visit_record(run) ==
    visit_record(chrome_to_timestamp(run.row.time),
                 chrome_transition(run.row.transition), "Chrome History", run)

\* app.py:317-325
firefox_visit_record(run) ==
    visit_record(firefox_to_timestamp(run.row.time),
                 firefox_transition(run.row.transition), "Firefox History", run)

\* the 1000 newest joined visits of a successful query
JoinedVisits(selected, visits, places) ==
    IF selected.raised THEN selected
    ELSE Ok(NewestVisits(VisitJoin(selected.value[visits], selected.value[visits],
                                   selected.value[places])))

\* app.py:254-270: the rows fetched for chrome
chrome_visit_rows(content) ==
    JoinedVisits(select(content, {"visits", "urls"}), "visits", "urls")

\* app.py:297-313: the rows fetched for firefox
firefox_visit_rows(content) ==
    JoinedVisits(select(content, {"moz_historyvisits", "moz_places"}),
                 "moz_historyvisits", "moz_places")

\* app.py:253-294
chrome_visits(content) ==
    LET results == chrome_visit_rows(content)
    IN  IF results.raised THEN results
        ELSE Collect([i \in 1..Len(results.value) |-> chrome_visit_record(results.value[i])])

\* app.py:296-325
firefox_visits(content) ==
    LET results == firefox_visit_rows(content)
    IN  IF results.raised THEN results
        ELSE Collect([i \in 1..Len(results.value) |-> firefox_visit_record(results.value[i])])

\* the body of the try, app.py:250-331
visits_body(self, content) ==
    IF connect(content).raised THEN connect(content)
    ELSE IF self.browser_type = "chrome" THEN chrome_visits(content)
    ELSE IF self.browser_type = "firefox" THEN firefox_visits(content)
    ELSE Ok(<<>>)

\* app.py:249-335
get_visits_data(self, content) == Caught(visits_body(self, content))

(***************************************************************************)
(* BrowserHistoryParser.get_search_terms_data, app.py:337-376.  A row of   *)
(* keyword_search_terms is [time, url, term, url_id].                      *)
(***************************************************************************)
RECURSIVE TermJoin(_, _)
\* keyword_search_terms kt JOIN urls u ON kt.url_id = u.id
TermJoin(terms, urls) ==
    IF terms = <<>> THEN <<>>
    ELSE LET kt == Head(terms)
             rest == TermJoin(Tail(terms), urls)
         IN  IF kt.url_id \in 1..Len(urls)
             THEN <<[time |-> kt.time, url |-> kt.url, term |-> kt.term,
                     title |-> urls[kt.url_id].title,
                     visit_count |-> urls[kt.url_id].visit_count]>> \o rest
             ELSE rest

\* the dictionary of app.py:360-366
term_record(stamp, row) ==
    IF stamp.raised THEN stamp
    ELSE Ok(Run([last_visit_time |-> Str(stamp),
                 search_url |-> PyOr(row.url, Empty),
                 term |-> PyOr(row.term, Empty),
                 page_title |-> PyOr(row.title, Empty),
                 visit_count |-> PyOr(row.visit_count, Zero)], 1))

\* app.py:359-366
search_term_record(row) == term_record(chrome_to_timestamp(row.time), row)



ByTime(joined) == OrderByDesc(joined, Times(joined))

\* the joined search terms of a successful query, newest first
NewestTerms(selected) ==
    IF selected.raised THEN selected
    ELSE Ok(ByTime(TermJoin(selected.value["keyword_search_terms"],
                            selected.value["urls"])))

\* app.py:344-366
chrome_search_terms(content) ==
    LET results == NewestTerms(select(content, {"keyword_search_terms", "urls"}))
    IN  IF results.raised THEN results
        ELSE Collect([i \in 1..Len(results.value) |-> search_term_record(results.value[i])])

\* the body of the try, app.py:340-372
search_terms_body(self, content) ==
    IF connect(content).raised THEN connect(content)
    ELSE IF self.browser_type = "chrome" THEN chrome_search_terms(content)
    ELSE Ok(<<>>)

\* app.py:339-376
get_search_terms_data(self, content) == Caught(search_terms_body(self, content))

(***************************************************************************)
(* The artifacts of the model                                              *)
(***************************************************************************)
MaxPlaceRows == 2

MaxVisitRuns == 2

SeqsUpTo(S, k) == UNION {[1..n -> S] : n \in 0..k}

\* 1970-01-01 00:10:31 for gecko, 1601-01-01 00:10:31 for chromium,
\* 2021-01-01 for webkit
TLo == SqlInt(Pos(<<631, 152, 0>>))

\* 2022-08-03 for chromium, 2391 for gecko, beyond year 9999 for webkit
THi == SqlInt(Pos(<<13, 303, 960, 0, 0, 0>>))

\* the greatest 64-bit integer: beyond year 9999 for every family
TMax == SqlInt(Pos(<<9, 223, 372, 36, 854, 775, 807>>))

RowTimes == {NULL, Zero, TLo, THi, TMax}

Small(k) == SqlInt(Pos(<<k>>))

PlaceRow(time) ==
    [time |-> time, url |-> Text("https://a.example/"), title |-> Text("A"),
     visit_count |-> Small(3), typed |-> Small(1), hidden |-> Zero]

PlaceRows ==
    {PlaceRow(t) : t \in RowTimes}
    \cup {[time |-> TLo, url |-> NULL, title |-> NULL, visit_count |-> NULL,
           typed |-> NULL, hidden |-> NULL],
          [PlaceRow(TLo) EXCEPT !.url = Blob],
          [PlaceRow(TLo) EXCEPT !.hidden = Small(1), !.title = Text("")]}

Tables(names, filled) ==
    [n \in names |-> IF n \in DOMAIN filled THEN filled[n] ELSE <<>>]

ChromeTables == {"urls", "visits", "downloads", "keyword_search_terms", "meta"}

FirefoxTables == {"moz_places", "moz_historyvisits", "moz_anno_attributes", "moz_annos"}

SafariTables == {"history_items", "history_visits"}

\* the table of URLs of a family
Primary(family) ==
    CASE family = "chrome" -> "urls"
      [] family = "firefox" -> "moz_places"
      [] family = "safari" -> "history_items"

\* the table of visits of a family
VisitsTable(family) ==
    CASE family = "chrome" -> "visits"
      [] family = "firefox" -> "moz_historyvisits"
      [] family = "safari" -> "history_visits"

FamilyTables(family) ==
    CASE family = "chrome" -> ChromeTables
      [] family = "firefox" -> FirefoxTables
      [] family = "safari" -> SafariTables

Families == {"chrome", "firefox", "safari"}

\* an artifact of `family` with the given primary table and visits
Artifact(family, places, visits, cols) ==
    Database([n \in FamilyTables(family) |->
                 IF n = Primary(family) THEN places
                 ELSE IF n = VisitsTable(family) THEN visits ELSE <<>>], cols)

HistoryArtifacts ==
    {Artifact(f, rows, <<>>, TRUE) :
        f \in Families, rows \in SeqsUpTo(PlaceRows, MaxPlaceRows)}
    \cup {Artifact(f, <<PlaceRow(TLo)>>, <<>>, FALSE) : f \in Families}

VisitRow(time, url, transition, from_visit) ==
    [time |-> time, url |-> url, transition |-> transition, from_visit |-> from_visit]

\* visits of the first URL at each time, a visit of no URL, a visit of the
\* second URL that came from the first run
VisitRows ==
    {VisitRow(t, 1, Small(1), 0) : t \in {NULL, TLo, THi, TMax}}
    \cup {VisitRow(THi, 7, Small(1), 0), VisitRow(TLo, 2, Zero, 1)}

VisitRuns == {[row |-> r, n |-> n] : r \in VisitRows, n \in {1, VisitLimit}}

TwoPlaces == <<PlaceRow(THi), [PlaceRow(TLo) EXCEPT !.url = Text("https://b.example/"),
                                                   !.title = NULL]>>

VisitArtifacts ==
    {Artifact(f, TwoPlaces, runs, TRUE) :
        f \in Families, runs \in SeqsUpTo(VisitRuns, MaxVisitRuns)}

\* the transition codes of the model: NULL, 0..9, a negative one, a chromium
\* code with qualifier bits (0x30000001), a text
Transitions ==
    {NULL, Zero, SqlInt(Neg(<<1>>)), SqlInt(Pos(<<805, 306, 369>>)), Text("1")}
    \cup {Small(k) : k \in 1..9}

TransitionArtifacts ==
    {Artifact(f, TwoPlaces, <<[row |-> VisitRow(TLo, 1, x, 0), n |-> 1]>>, TRUE) :
        f \in {"chrome", "firefox"}, x \in Transitions}

DownloadRow(start, path) ==
    [start_time |-> start, end_time |-> Zero, target_path |-> path,
     received_bytes |-> Small(5), total_bytes |-> NULL,
     tab_url |-> Text("https://a.example/f"), tab_referrer_url |-> NULL]

DownloadRows ==
    {DownloadRow(THi, Text("/home/u/report.pdf")), DownloadRow(TMax, Text("x")),
     DownloadRow(TLo, NULL), DownloadRow(TLo, Blob), DownloadRow(TLo, Small(5))}

TermRow(time, url_id) ==
    [time |-> time, url |-> Text("https://s.example/?q=x"), term |-> Text("x"),
     url_id |-> url_id]

ChromeWith(downloads, terms) ==
    Database(Tables(ChromeTables,
                    [n \in {"urls", "downloads", "keyword_search_terms"} |->
                        CASE n = "urls" -> TwoPlaces
                          [] n = "downloads" -> downloads
                          [] OTHER -> terms]), TRUE)

AnnoRow(attribute, place, added) ==
    [anno_attribute_id |-> attribute, place_id |-> place, dateAdded |-> added,
     lastModified |-> Zero, content |-> Text("file:///home/u/report.pdf")]

FirefoxWith(annos) ==
    Database(Tables(FirefoxTables,
                    [n \in {"moz_places", "moz_annos", "moz_anno_attributes"} |->
                        CASE n = "moz_places" -> TwoPlaces
                          [] n = "moz_annos" -> annos
                          [] OTHER -> <<[name |-> "bookmarkProperties/description"],
                                        [name |-> DownloadAnnotation]>>]), TRUE)

DownloadArtifacts ==
    {ChromeWith(<<r>>, <<>>) : r \in DownloadRows}
    \cup {ChromeWith(<<>>, <<TermRow(t, i)>>) : t \in {TLo, TMax}, i \in {1, 7}}
    \cup {FirefoxWith(<<AnnoRow(a, 1, t)>>) : a \in {1, 2}, t \in {TLo, TMax}}
    \cup {Database(Tables({"urls", "visits", "downloads"}, [n \in {"urls"} |-> TwoPlaces]),
                   TRUE),
          Database(Tables({"moz_places", "moz_historyvisits"},
                          [n \in {"moz_places"} |-> TwoPlaces]), TRUE)}

\* the table names the classifier looks for, and one it does not
SignatureTables ==
    {"urls", "visits", "downloads", "moz_places", "moz_historyvisits",
     "history_items", "history_visits", "meta"}

SchemaArtifacts ==
    {Database(Tables(names, NoTables), TRUE) : names \in SUBSET SignatureTables}

EngineFiles ==
    {NoFile, Unreadable, Garbage} \cup SchemaArtifacts \cup HistoryArtifacts
    \cup VisitArtifacts \cup TransitionArtifacts \cup DownloadArtifacts

\* what an upload may put over the file of a live parser
AppArtifacts ==
    {Garbage, EmptyDb,
     Artifact("chrome", TwoPlaces, <<[row |-> VisitRow(THi, 1, Small(1), 0), n |-> 1]>>, TRUE),
     Artifact("chrome", <<PlaceRow(TMax)>>, <<>>, TRUE),
     Artifact("chrome", <<[PlaceRow(TLo) EXCEPT !.url = Blob]>>, <<>>, TRUE),
     Artifact("firefox", TwoPlaces, <<[row |-> VisitRow(TLo, 1, Zero, 0), n |-> 1]>>, TRUE),
     Artifact("safari", <<PlaceRow(TLo)>>, <<>>, TRUE)}

(***************************************************************************)
(* The engine, called directly: one path, any artifact                     *)
(***************************************************************************)
Paths == {"a.sqlite", "B.SQLITE"}

EnginePath == "a.sqlite"

\* what `ret` holds of a call: the method, its argument (None where the call
\* has none beyond self) and its outcome
Returned(op, arg, out) == [op |-> op, arg |-> arg, out |-> out]

NoCall == Returned("none", None, Ok(<<>>))

\* the body of an HTTP response: the route, the status and the JSON fields
Response(route, status, error, data, browser_type) ==
    [route |-> route, status |-> status, error |-> error, data |-> data,
     browser_type |-> browser_type]

NoResponse == Response("none", 0, "", <<>>, "")

\* the threads of the development server (app.run, app.py:470, serves each
\* request on a thread of its own)
Workers == {"w1", "w2"}

\* what a worker holds of the request it serves: the handler's position, the
\* route, the handler's locals (the upload's request and parser instance, the
\* extraction's data), the artifact the data was read from, and the response
\* once it is sent
Serving(pc, route, req, obj, data, read_from, sent) ==
    [pc |-> pc, route |-> route, req |-> req, obj |-> obj, data |-> data,
     read_from |-> read_from, sent |-> sent]

NoRequest == Serving("idle", "none", None, None, None, None, NoResponse)

Init ==
    /\ files \in {[p \in Paths |-> IF p = EnginePath THEN c ELSE NoFile] : c \in EngineFiles}
    /\ parser = None
    /\ current_parser = None
    /\ detect_runs = 0
    /\ ret = NoCall
    /\ response = NoResponse
    /\ inflight = [w \in Workers |-> NoRequest]

\* an extraction that runs the classifier again on the file as it is now
redetected_self(self, content) ==
    [self EXCEPT !.browser_type = detect_browser_type(content).value]

\* app.py:80-376: what an extraction leaves of self (no method assigns to
\* self.browser_type or calls detect_browser_type)
extraction_self(self, content) == self

\* BrowserHistoryParser(db_path), app.py:22-24
Construct ==
    /\ parser' = BrowserHistoryParser(EnginePath, files[EnginePath]).value
    /\ files' = [files EXCEPT ![EnginePath] = Connected(@)]
    /\ detect_runs' = 1
    /\ ret' = Returned("__init__", None, BrowserHistoryParser(EnginePath, files[EnginePath]))
    /\ UNCHANGED <<current_parser, response, inflight>>

\* parser.get_history_data(), app.py:80
CallHistory ==
    /\ parser # None
    /\ ret' = Returned("get_history_data", None,
                       get_history_data(parser, files[parser.db_path]))
    /\ parser' = extraction_self(parser, files[parser.db_path])
    /\ UNCHANGED <<files, current_parser, detect_runs, response, inflight>>

\* parser.get_downloads_data(), app.py:170
CallDownloads ==
    /\ parser # None
    /\ ret' = Returned("get_downloads_data", None,
                       get_downloads_data(parser, files[parser.db_path]))
    /\ parser' = extraction_self(parser, files[parser.db_path])
    /\ UNCHANGED <<files, current_parser, detect_runs, response, inflight>>

\* parser.get_visits_data(), app.py:247
CallVisits ==
    /\ parser # None
    /\ ret' = Returned("get_visits_data", None,
                       get_visits_data(parser, files[parser.db_path]))
    /\ parser' = extraction_self(parser, files[parser.db_path])
    /\ UNCHANGED <<files, current_parser, detect_runs, response, inflight>>

\* parser.get_search_terms_data(), app.py:337
CallSearchTerms ==
    /\ parser # None
    /\ ret' = Returned("get_search_terms_data", None,
                       get_search_terms_data(parser, files[parser.db_path]))
    /\ parser' = extraction_self(parser, files[parser.db_path])
    /\ UNCHANGED <<files, current_parser, detect_runs, response, inflight>>

\* app.py:400: file.save(filepath) writes over the file a live parser reads
Overwrite ==
    /\ parser # None
    /\ \E c \in AppArtifacts : files' = [files EXCEPT ![EnginePath] = c]
    /\ ret' = NoCall
    /\ UNCHANGED <<parser, current_parser, detect_runs, response, inflight>>

Next ==
    \/ Construct
    \/ CallHistory
    \/ CallDownloads
    \/ CallVisits
    \/ CallSearchTerms
    \/ Overwrite

Spec == Init /\ [][Next]_vars

(***************************************************************************)
(* The converters as functions of a raw column value                       *)
(***************************************************************************)
\* magnitudes around the edges of the three converters
ConvMagnitudes ==
    {<<1>>, <<999, 999>>, <<1, 0, 0>>, <<1, 500, 0>>, <<631, 152, 0>>,
     <<86, 400, 0, 0, 0>>,
     <<252, 423, 993, 599>>, <<252, 423, 993, 600>>,
     <<62, 135, 596, 800>>, <<62, 135, 596, 801>>,
     <<13, 303, 960, 0, 0, 0>>,
     <<17, 179, 869, 184, 999, 999>>,
     <<11, 644, 473, 600, 0, 0>>, <<50, 491, 123, 200, 0, 0>>,
     <<50, 491, 123, 200, 0, 1>>, <<62, 135, 596, 800, 0, 0>>,
     <<62, 135, 596, 800, 0, 1>>,
     <<253, 402, 300, 799, 999, 999>>, <<253, 402, 300, 800, 0, 0>>,
     <<265, 46, 774, 399, 999, 999>>, <<265, 46, 774, 400, 0, 0>>,
     <<9, 223, 372, 36, 854, 775, 807>>}

\* the raw values handed to a converter: integers of either sign, 0, NULL
ConvInputs ==
    {NULL, Zero} \cup {SqlInt(Pos(m)) : m \in ConvMagnitudes}
    \cup {SqlInt(Neg(m)) : m \in ConvMagnitudes}

InitConv ==
    /\ files = [p \in Paths |-> NoFile]
    /\ parser = None
    /\ current_parser = None
    /\ detect_runs = 0
    /\ ret \in {Returned("input", x, Ok(<<>>)) : x \in ConvInputs}
    /\ response = NoResponse
    /\ inflight = [w \in Workers |-> NoRequest]

\* self.chrome_to_timestamp(x), app.py:54
CallChrome ==
    /\ ret.op = "input"
    /\ ret' = Returned("chrome_to_timestamp", ret.arg, chrome_to_timestamp(ret.arg))
    /\ UNCHANGED <<files, parser, current_parser, detect_runs, response, inflight>>

\* self.webkit_to_timestamp(x), app.py:63
CallWebkit ==
    /\ ret.op = "input"
    /\ ret' = Returned("webkit_to_timestamp", ret.arg, webkit_to_timestamp(ret.arg))
    /\ UNCHANGED <<files, parser, current_parser, detect_runs, response, inflight>>

\* self.firefox_to_timestamp(x), app.py:72
CallFirefox ==
    /\ ret.op = "input"
    /\ ret' = Returned("firefox_to_timestamp", ret.arg, firefox_to_timestamp(ret.arg))
    /\ UNCHANGED <<files, parser, current_parser, detect_runs, response, inflight>>

NextConv ==
    \/ CallChrome
    \/ CallWebkit
    \/ CallFirefox

SpecConv == InitConv /\ [][NextConv]_vars

(***************************************************************************)
(* The Flask handlers, app.py:385-463.  A handler runs from request to     *)
(* response in one step; the global current_parser is the only state the   *)
(* handlers share besides the upload folder.                               *)
(***************************************************************************)
\* the names a client may give the uploaded file
Filenames == {"", "notes.txt", "a.sqlite", "../a.sqlite", "B.SQLITE"}

\* str.lower() on the names of the model
lower(filename) == IF filename = "B.SQLITE" THEN "b.sqlite" ELSE filename

\* str.endswith('.sqlite') on the lowered names of the model
endswith_sqlite(name) == name \in {"a.sqlite", "../a.sqlite", "b.sqlite"}

\* werkzeug's secure_filename on the names of the model: path separators
\* and leading dots go, the case stays
secure_filename(filename) == IF filename = "../a.sqlite" THEN "a.sqlite" ELSE filename

\* the multipart requests: without a 'file' part, or with one
Requests ==
    {[has_file |-> FALSE, filename |-> "", content |-> Garbage]}
    \cup {[has_file |-> TRUE, filename |-> f, content |-> c] :
             f \in Filenames, c \in AppArtifacts}

\* file.save(filepath): written, or an OSError before or amid the writing
SaveOutcomes == {"saved", "failed", "partial"}

\* flask.jsonify of a list of records: bytes (a BLOB read by sqlite3) are not
\* JSON serializable and raise TypeError
JsonSerializable(data) ==
    \A i \in 1..Len(data) : \A f \in DOMAIN data[i].rec : data[i].rec[f].t # "blob"

\* app.py:397-413, the try of upload_file
upload_try(req, saved) ==
    IF saved = "saved"
    THEN /\ files' = [files EXCEPT ![secure_filename(req.filename)] = req.content]
         /\ current_parser' =
                BrowserHistoryParser(secure_filename(req.filename), req.content).value
         /\ detect_runs' = 1
         /\ response' = Response("/upload", 200, "", <<>>,
                                 detect_browser_type(req.content).value)
    ELSE /\ files' = IF saved = "partial"
                     THEN [files EXCEPT ![secure_filename(req.filename)] = Garbage]
                     ELSE files
         /\ response' = Response("/upload", 500, "Error processing file", <<>>, "")
         /\ UNCHANGED <<current_parser, detect_runs>>

\* app.py:385-415
upload_file ==
    \E req \in Requests, saved \in SaveOutcomes :
        /\ IF ~req.has_file \/ req.filename = ""
           THEN /\ response' = Response("/upload", 400, "No file selected", <<>>, "")
                /\ UNCHANGED <<files, current_parser, detect_runs>>
           ELSE IF ~endswith_sqlite(lower(req.filename))
           THEN /\ response' = Response("/upload", 400, "Invalid file type", <<>>, "")
                /\ UNCHANGED <<files, current_parser, detect_runs>>
           ELSE upload_try(req, saved)
        /\ UNCHANGED <<parser, ret, inflight>>

\* the try of an extraction handler: jsonify of the data and the cached
\* family, or the 500 of its except
extraction_try(route, data) ==
    IF data.raised THEN Response(route, 500, data.exc, <<>>, "")
    ELSE IF ~JsonSerializable(data.value) THEN Response(route, 500, "TypeError", <<>>, "")
    ELSE Response(route, 200, "", data.value, current_parser.browser_type)

\* app.py:417-427
get_history ==
    /\ response' =
           IF current_parser = None
           THEN Response("/api/history", 400, "No database loaded", <<>>, "")
           ELSE extraction_try("/api/history",
                               get_history_data(current_parser,
                                                files[current_parser.db_path]))
    /\ UNCHANGED <<files, parser, current_parser, detect_runs, ret, inflight>>

\* app.py:429-439
get_downloads ==
    /\ response' =
           IF current_parser = None
           THEN Response("/api/downloads", 400, "No database loaded", <<>>, "")
           ELSE extraction_try("/api/downloads",
                               get_downloads_data(current_parser,
                                                  files[current_parser.db_path]))
    /\ UNCHANGED <<files, parser, current_parser, detect_runs, ret, inflight>>

\* app.py:441-451
get_visits ==
    /\ response' =
           IF current_parser = None
           THEN Response("/api/visits", 400, "No database loaded", <<>>, "")
           ELSE extraction_try("/api/visits",
                               get_visits_data(current_parser,
                                               files[current_parser.db_path]))
    /\ UNCHANGED <<files, parser, current_parser, detect_runs, ret, inflight>>

\* app.py:453-463
get_search_terms ==
    /\ response' =
           IF current_parser = None
           THEN Response("/api/search-terms", 400, "No database loaded", <<>>, "")
           ELSE extraction_try("/api/search-terms",
                               get_search_terms_data(current_parser,
                                                     files[current_parser.db_path]))
    /\ UNCHANGED <<files, parser, current_parser, detect_runs, ret, inflight>>

\* the module as loaded: current_parser = None (app.py:379), an empty upload
\* folder
InitApp ==
    /\ files = [p \in Paths |-> NoFile]
    /\ parser = None
    /\ current_parser = None
    /\ detect_runs = 0
    /\ ret = NoCall
    /\ response = NoResponse
    /\ inflight = [w \in Workers |-> NoRequest]

NextApp ==
    \/ upload_file
    \/ get_history
    \/ get_downloads
    \/ get_visits
    \/ get_search_terms

SpecApp == InitApp /\ [][NextApp]_vars

(***************************************************************************)
(* The handlers on the threads of the server, app.py:385-463.  Each        *)
(* request runs on a worker; a worker may be switched out between the      *)
(* statements of its handler, and every mention of current_parser in a     *)
(* handler is a fresh read of the global.  A call into the engine (the     *)
(* constructor, an extraction) runs as a unit.                             *)
(***************************************************************************)
\* what the clients upload while extractions are served
WebArtifacts ==
    {Artifact("chrome", TwoPlaces, <<>>, TRUE), Artifact("firefox", TwoPlaces, <<>>, TRUE)}

WebRequests ==
    {[has_file |-> TRUE, filename |-> "notes.txt", content |-> Garbage]}
    \cup {[has_file |-> TRUE, filename |-> f, content |-> c] :
             f \in {"a.sqlite", "B.SQLITE"}, c \in WebArtifacts}

\* current_parser.get_*_data() of the four routes, app.py:424, 436, 448, 460
extraction_data(route, self, content) ==
    CASE route = "/api/history" -> get_history_data(self, content)
      [] route = "/api/downloads" -> get_downloads_data(self, content)
      [] route = "/api/visits" -> get_visits_data(self, content)
      [] route = "/api/search-terms" -> get_search_terms_data(self, content)

\* a worker free to take a request
Free(w) == inflight[w].pc \in {"idle", "done"}

\* the worker's handler has returned `sent`: its locals are gone, and what
\* stays is the response and the artifact its data was read from
Done(w, sent) ==
    [inflight EXCEPT ![w] = Serving("done", inflight[w].route, None, None, None,
                                    inflight[w].read_from, sent)]

\* app.py:389-396 and 415: the checks of upload_file before its try
upload_file_validate(w) ==
    /\ Free(w)
    /\ \E req \in WebRequests :
           inflight' =
               [inflight EXCEPT ![w] =
                   IF endswith_sqlite(lower(req.filename))
                   THEN Serving("save", "/upload", req, None, None, None, NoResponse)
                   ELSE Serving("done", "/upload", None, None, None, None,
                                Response("/upload", 400, "Invalid file type", <<>>, ""))]
    /\ UNCHANGED <<files, parser, current_parser, detect_runs, ret, response>>

\* app.py:398-400 and 412-413: file.save(filepath) drains the uploaded stream
\* into the file, or the except
upload_file_save(w) ==
    /\ inflight[w].pc = "save"
    /\ \E saved \in SaveOutcomes :
           /\ files' =
                  CASE saved = "saved" ->
                           [files EXCEPT ![secure_filename(inflight[w].req.filename)] =
                                             inflight[w].req.content]
                    [] saved = "partial" ->
                           [files EXCEPT ![secure_filename(inflight[w].req.filename)] =
                                             Garbage]
                    [] OTHER -> files
           /\ inflight' =
                  IF saved = "saved"
                  THEN [inflight EXCEPT ![w].pc = "construct", ![w].req.content = None]
                  ELSE Done(w, Response("/upload", 500, "Error processing file", <<>>, ""))
    /\ UNCHANGED <<parser, current_parser, detect_runs, ret, response>>

\* app.py:403, the right-hand side: BrowserHistoryParser(filepath) classifies
\* the file as it is on disk now
upload_file_construct(w) ==
    /\ inflight[w].pc = "construct"
    /\ inflight' =
           [inflight EXCEPT
               ![w].pc = "bind",
               ![w].obj =
                   BrowserHistoryParser(secure_filename(inflight[w].req.filename),
                                        files[secure_filename(inflight[w].req.filename)]).value]
    /\ UNCHANGED <<files, parser, current_parser, detect_runs, ret, response>>

\* app.py:403, the assignment to the global
upload_file_bind(w) ==
    /\ inflight[w].pc = "bind"
    /\ current_parser' = inflight[w].obj
    /\ detect_runs' = 1
    /\ inflight' = [inflight EXCEPT ![w].pc = "return"]
    /\ UNCHANGED <<files, parser, ret, response>>

\* app.py:405-410: the response names current_parser.browser_type
upload_file_return(w) ==
    /\ inflight[w].pc = "return"
    /\ inflight' = Done(w, Response("/upload", 200, "", <<>>, current_parser.browser_type))
    /\ UNCHANGED <<files, parser, current_parser, detect_runs, ret, response>>

\* app.py:420-421 (432, 444, 456): `if not current_parser`
extraction_guard(w) ==
    /\ Free(w)
    /\ \E route \in {"/api/history", "/api/downloads", "/api/visits", "/api/search-terms"} :
           inflight' =
               [inflight EXCEPT ![w] =
                   IF current_parser = None
                   THEN Serving("done", route, None, None, None, None,
                                Response(route, 400, "No database loaded", <<>>, ""))
                   ELSE Serving("call", route, None, None, None, None, NoResponse)]
    /\ UNCHANGED <<files, parser, current_parser, detect_runs, ret, response>>

\* app.py:424 (436, 448, 460): data = current_parser.get_*_data(), read from
\* the file of the parser that is bound now
extraction_call(w) ==
    /\ inflight[w].pc = "call"
    /\ inflight' =
           [inflight EXCEPT
               ![w].pc = "jsonify",
               ![w].data = extraction_data(inflight[w].route, current_parser,
                                           files[current_parser.db_path]),
               ![w].read_from = files[current_parser.db_path]]
    /\ UNCHANGED <<files, parser, current_parser, detect_runs, ret, response>>

\* app.py:425-427 (437-439, 449-451, 461-463): jsonify of the data and of
\* current_parser.browser_type, the parser that is bound now
extraction_return(w) ==
    /\ inflight[w].pc = "jsonify"
    /\ inflight' = Done(w, extraction_try(inflight[w].route, inflight[w].data))
    /\ UNCHANGED <<files, parser, current_parser, detect_runs, ret, response>>

NextWeb ==
    \/ \E w \in Workers : upload_file_validate(w)
    \/ \E w \in Workers : upload_file_save(w)
    \/ \E w \in Workers : upload_file_construct(w)
    \/ \E w \in Workers : upload_file_bind(w)
    \/ \E w \in Workers : upload_file_return(w)
    \/ \E w \in Workers : extraction_guard(w)
    \/ \E w \in Workers : extraction_call(w)
    \/ \E w \in Workers : extraction_return(w)

SpecWeb == InitApp /\ [][NextWeb]_vars

(***************************************************************************)
(* Properties                                                              *)
(***************************************************************************)
ExtractionOps ==
    {"get_history_data", "get_downloads_data", "get_visits_data",
     "get_search_terms_data"}

ConverterOps == {"chrome_to_timestamp", "webkit_to_timestamp", "firefox_to_timestamp"}

\* the file the engine's parser reads
EngineFile == files[EnginePath]

\* the classification rule as the specification words it: the first
\* signature that is a subset of the table names
SignatureFamily(T) ==
    IF {"urls", "visits", "downloads"} \subseteq T THEN "chrome"
    ELSE IF {"moz_places", "moz_historyvisits"} \subseteq T THEN "firefox"
    ELSE IF {"history_items", "history_visits"} \subseteq T THEN "safari"
    ELSE "unknown"

ExpectedFamily(content) ==
    IF content.kind = "sqlite" THEN SignatureFamily(DOMAIN content.tables)
    ELSE "unknown"

\* C1: the constructor never raises and the family it stores is the first
\* signature, in the order chromium, gecko, webkit, that is a subset of the
\* file's table names, and 'unknown' when none is or when the file cannot be
\* opened or its tables cannot be listed.
C1_Classification ==
    ret.op = "__init__" =>
        /\ ~ret.out.raised
        /\ parser.browser_type = ExpectedFamily(EngineFile)

\* an inventory with the chromium and the gecko signature is classified
\* chromium
C1_Witness ==
    /\ ret.op = "__init__"
    /\ EngineFile.kind = "sqlite"
    /\ {"urls", "visits", "downloads", "moz_places", "moz_historyvisits"}
           \subseteq DOMAIN EngineFile.tables
    /\ parser.browser_type = "chrome"

\* the epoch of a converter as an ordinal, and the raw units in a second
EpochOf(op) ==
    CASE op = "chrome_to_timestamp" -> ymd_to_ord(1601, 1, 1)
      [] op = "webkit_to_timestamp" -> ymd_to_ord(2001, 1, 1)
      [] op = "firefox_to_timestamp" -> ymd_to_ord(1970, 1, 1)

UnitOf(op) == IF op = "webkit_to_timestamp" THEN 1 ELSE MicrosPerSecond

\* epoch + n at the family's resolution in exact integer arithmetic, to the
\* second; raised when the date library has no such date
Reference(op, n) == datetime_add(EpochOf(op), timedelta(n, UnitOf(op)))

\* C2: a converter handed an out-of-range integer (the date of the family's
\* epoch plus the value is outside the years 1..9999 of the date library)
\* returns "Never" and does not raise.
C2_OutOfRangeIsNever ==
    (/\ ret.op \in ConverterOps
     /\ IsInt(ret.arg)
     /\ ~IsZero(ret.arg.v)
     /\ Reference(ret.op, ret.arg.v).raised)
        => (~ret.out.raised /\ ret.out.value = "Never")

\* C3: a converter returns "Never" for 0 and, for every other integer whose
\* date is in range, the UTC string of epoch + n at the family's resolution.
C3_AgreesWithReference ==
    (ret.op \in ConverterOps /\ IsInt(ret.arg)) =>
        IF IsZero(ret.arg.v) THEN ~ret.out.raised /\ ret.out.value = "Never"
        ELSE ~Reference(ret.op, ret.arg.v).raised =>
                 /\ ~ret.out.raised
                 /\ ret.out.value = Reference(ret.op, ret.arg.v).value

\* the pairs of an operation and a family for which app.py has no branch
Unsupported(op, family) ==
    \/ op = "get_search_terms_data" /\ family \in {"firefox", "safari", "unknown"}
    \/ op \in {"get_downloads_data", "get_visits_data"}
       /\ family \in {"safari", "unknown"}
    \/ op = "get_history_data" /\ family = "unknown"

\* C4: an extraction for which the parser's family has no extractor returns
\* the empty list and does not raise, whatever the file holds; a file that is
\* no database is of family 'unknown', so all four operations return the
\* empty list on it.
C4_UnsupportedIsEmpty ==
    (ret.op \in ExtractionOps /\ Unsupported(ret.op, parser.browser_type)) =>
        (~ret.out.raised /\ ret.out.value = <<>>)

\* get_history_data has returned the empty list on a file that is no database
C4_Witness ==
    /\ ret.op = "get_history_data"
    /\ EngineFile = Garbage
    /\ parser.browser_type = "unknown"
    /\ ~ret.out.raised
    /\ ret.out.value = <<>>

ExtractionRoutes == {"/api/history", "/api/downloads", "/api/visits", "/api/search-terms"}

\* C5: an extraction request is answered with an error exactly when no parser
\* is bound; with a parser bound the answer is the data (empty for a data
\* problem) and the family tag.
C5_ErrorIffUnbound ==
    response.route \in ExtractionRoutes =>
        (response.status # 200 <=> current_parser = None)

\* the live parser of the engine was constructed on another family's file
\* than the one its path holds now
Repointed ==
    /\ parser # None
    /\ parser.browser_type # detect_browser_type(EngineFile).value

\* C6: a parser's classifier has run exactly once, in the constructor, whose
\* result is readable as soon as the constructor returns; no extraction call
\* runs it again or changes browser_type; and an extraction dispatches on the
\* stored family, not on what the file holds by then: visit records carry the
\* stored family's segment name and a parser of family 'unknown' returns
\* nothing.
C6_FamilyCached ==
    /\ [](parser # None => detect_runs = 1)
    /\ [](ret.op = "__init__" =>
              /\ ret.out.value = parser
              /\ parser.browser_type = detect_browser_type(EngineFile).value)
    /\ [][ret'.op \in ExtractionOps =>
              /\ parser' = parser
              /\ detect_runs' = detect_runs]_vars
    /\ []((ret.op \in ExtractionOps /\ parser.browser_type = "unknown") =>
              ret.out.value = <<>>)
    /\ []((ret.op = "get_visits_data" /\ ret.out.value # <<>>) =>
              \A i \in 1..Len(ret.out.value) :
                  ret.out.value[i].rec.segment_name =
                      Text(IF parser.browser_type = "chrome" THEN "Chrome History"
                           ELSE "Firefox History"))

\* a chromium parser has answered an extraction after its file was replaced
\* by a gecko artifact
C6_Witness ==
    /\ ret.op = "get_visits_data"
    /\ Repointed
    /\ parser.browser_type = "chrome"
    /\ detect_browser_type(EngineFile).value = "firefox"
    /\ detect_runs = 1

\* the rows of table `name` of a database with the columns the queries
\* name, <<>> for any other file
RowsOf(content, name) ==
    IF content.kind = "sqlite" /\ content.cols /\ name \in DOMAIN content.tables
    THEN content.tables[name] ELSE <<>>

\* C7: get_history_data on a classified artifact returns one record for each
\* row of the family's primary table, never-visited rows (time 0 or NULL)
\* among them with the time "Never".
C7_OneRecordPerRow ==
    (/\ ret.op = "get_history_data"
     /\ parser.browser_type \in Families
     /\ parser.browser_type = ExpectedFamily(EngineFile)
     /\ EngineFile.cols)
        => Count(ret.out.value) = Len(RowsOf(EngineFile, Primary(parser.browser_type)))

\* the visits table of the engine's file holds exactly one visit, of a URL
\* of the primary table
OneVisit(family) ==
    /\ parser.browser_type = family
    /\ Len(RowsOf(EngineFile, VisitsTable(family))) = 1
    /\ RowsOf(EngineFile, VisitsTable(family))[1].n = 1
    /\ RowsOf(EngineFile, VisitsTable(family))[1].row.url
           \in 1..Len(RowsOf(EngineFile, Primary(family)))

\* the native transition of that visit
NativeTransition(family) == RowsOf(EngineFile, VisitsTable(family))[1].row.transition

\* the gecko label as the specification words it
GeckoLabel(x) == IF x = NULL THEN "Unknown" ELSE "Type " \o FormatValue(x)

\* C8: the label of a gecko visit whose native type is the number n is
\* "Type n", for n = 0 too, and "Unknown" exactly when the native type is NULL.
C8_GeckoLabel ==
    (/\ ret.op = "get_visits_data"
     /\ OneVisit("firefox")
     /\ NativeTransition("firefox").t \in {"null", "int"}
     /\ ret.out.value # <<>>)
        => ret.out.value[1].rec.transition = Text(GeckoLabel(NativeTransition("firefox")))

\* the chromium vocabulary of the specification
DocumentedLabel(code) ==
    CASE code = 0 -> "Link"
      [] code = 1 -> "Typed"
      [] code = 2 -> "Auto Bookmark"
      [] code = 3 -> "Auto Subframe"
      [] code = 4 -> "Manual Subframe"
      [] code = 5 -> "Generated"
      [] code = 6 -> "Start Page"
      [] code = 7 -> "Form Submit"
      [] code = 8 -> "Reload"

\* the code 0..8 a native value is, or 9 for any other value
CodeOf(x) ==
    IF x = Zero THEN 0
    ELSE IF \E k \in 1..8 : x = Small(k) THEN CHOOSE k \in 1..8 : x = Small(k)
    ELSE 9

ChromiumLabel(x) == IF CodeOf(x) = 9 THEN "Unknown" ELSE DocumentedLabel(CodeOf(x))

\* C9: the label of a chromium visit is the documented label of its native
\* code 0..8 and "Unknown" for every other native value, NULL included.
C9_ChromiumLabel ==
    (/\ ret.op = "get_visits_data"
     /\ OneVisit("chrome")
     /\ ret.out.value # <<>>)
        => ret.out.value[1].rec.transition = Text(ChromiumLabel(NativeTransition("chrome")))

\* a chromium visit of native code 8 is labelled "Reload"
C9_Witness ==
    /\ ret.op = "get_visits_data"
    /\ OneVisit("chrome")
    /\ NativeTransition("chrome") = Small(8)
    /\ ret.out.value # <<>>
    /\ ret.out.value[1].rec.transition = Text("Reload")

\* the visits of the engine's file, newest first, cut at the cap
NewestRuns(family) ==
    Limit(OrderByDesc(RowsOf(EngineFile, VisitsTable(family)),
                      [i \in 1..Len(RowsOf(EngineFile, VisitsTable(family))) |->
                          RowsOf(EngineFile, VisitsTable(family))[i].row.time]),
          VisitLimit)

\* the time of a visit record as the specification has it
VisitTime(family, time) ==
    IF ~IsInt(time) \/ IsZero(time.v) THEN "Never"
    ELSE IF Reference(family \o "_to_timestamp", time.v).raised THEN "Never"
    ELSE Reference(family \o "_to_timestamp", time.v).value

\* C10: get_visits_data returns at most 1000 records, and of a table of more
\* than 1000 visits the 1000 of the greatest native time, newest first.
C10_NewestThousand ==
    ret.op = "get_visits_data" =>
        /\ Count(ret.out.value) <= VisitLimit
        /\ (/\ parser.browser_type \in {"chrome", "firefox"}
            /\ Count(RowsOf(EngineFile, VisitsTable(parser.browser_type))) > VisitLimit)
               => /\ Count(ret.out.value) = VisitLimit
                  /\ Len(ret.out.value) = Len(NewestRuns(parser.browser_type))
                  /\ \A i \in 1..Len(ret.out.value) :
                         /\ ret.out.value[i].n = NewestRuns(parser.browser_type)[i].n
                         /\ ret.out.value[i].rec.visit_time =
                                Text(VisitTime(parser.browser_type,
                                               NewestRuns(parser.browser_type)[i].row.time))

\* the data of a sent extraction response has rows
ServedRows(w) ==
    /\ inflight[w].pc = "done"
    /\ inflight[w].route \in ExtractionRoutes
    /\ inflight[w].sent.status = 200
    /\ Len(inflight[w].sent.data) > 0

\* the tag of a response with rows is the family of the artifact read
TagOfArtifactRead ==
    \A w \in Workers :
        ServedRows(w) =>
            inflight[w].sent.browser_type = detect_browser_type(inflight[w].read_from).value

\* no step writes the file of the parser that stays bound
BoundFileKept ==
    (current_parser # None /\ current_parser' = current_parser)
        => files'[current_parser.db_path] = files[current_parser.db_path]

\* C11: under any interleaving of uploads and extractions, the browser_type
\* of an extraction response is the family classified for the artifact whose
\* rows make up its data, and the file of a bound parser is not overwritten
\* while that parser stays the one bound
C11_TagOfOwnArtifact == []TagOfArtifactRead /\ [][BoundFileKept]_vars

====
